---- MODULE Spec2Model ----
(***************************************************************************)
(* AI Reel Maker: the request orchestrator (handleSubmit), the long-       *)
(* running-operation poller (pollVideoOperation), the speech and video     *)
(* service calls and the PCM decoder, as a state machine.                  *)
(*                                                                         *)
(* Two revisions of the application component are in the repository: the   *)
(* voice-only one (src/App.tsx, audio handle = audioData, a base64 string) *)
(* and the one with background music and mixing (src/unnamed/part_001,     *)
(* audio handle = audioBuffer).  The variable `build` says which one runs. *)
(* The player (src/components/VideoPlayer.tsx) takes audioData and so      *)
(* belongs to the voice-only revision; it is mounted and unmounted by the  *)
(* render that follows each change of state.                               *)
(*                                                                         *)
(* Spec is the application; SpecLive is Spec with weak fairness of the     *)
(* settling of every outstanding call; SpecCodec applies the PCM decoder   *)
(* and the WAV encoder to every input of a bounded set.                    *)
(*                                                                         *)
(* Conventions.  An optional value is a sequence of length 0 (null /       *)
(* undefined) or 1.  A message is a sequence of text fragments, so that    *)
(* template concatenation is \o and String.includes is a contiguous        *)
(* sub-sequence test.  User texts and base64 payloads are sequences of     *)
(* one-character strings.  A float amplitude is held as a fraction num/den   *)
(* (every value the decoder produces is k/32768, exactly).                 *)
(***************************************************************************)
EXTENDS Integers, Sequences, FiniteSets, TLC

\* ------------------------------------------------------------------ bounds
\* At most MaxPolls status answers may say "not done" within one poll call.
MaxPolls == 2

\* The PCM byte sequences the codec functions are applied to have 1 to
\* MaxPcmBytes bytes.
MaxPcmBytes == 4

\* ------------------------------------------------------- program constants
SpeechSampleRate == 24000
Int16Scale == 32768

Null == <<>>
Some(x) == <<x>>

LOADING_MESSAGES ==
    << "Warming up the digital cameras...",
       "Casting virtual actors...",
       "Scouting for digital locations...",
       "Rendering the first few frames...",
       "Applying cinematic filters...",
       "Syncing audio and video...",
       "This can take a few minutes, please be patient.",
       "Almost there, adding the final touches..." >>

MUSIC_TRACKS == {"none", "uplifting"}

\* ---------------------------------------------------------------- messages
MsgApiKeyNotSet == <<"API_KEY environment variable not set.">>
MsgStatusCheckFailed == <<"Failed while checking video generation status.">>
MsgGenerationFailedPrefix == <<"Video generation failed: ">>
MsgNoAudioData == <<"Audio generation failed to produce data.">>
MsgNoPrompt == <<"Please enter a video prompt.">>
MsgFetchMusic == <<"Failed to fetch music">>
MsgDownloadFailed == <<"Failed to download the generated video.">>
MsgNoDownloadLink == <<"Video generation did not return a valid download link.">>
MsgUnknown == <<"An unknown error occurred.">>
MsgInvalidKey ==
    <<"Your API key is invalid or missing permissions. Please select a valid key.">>
MsgSelectKeyDialog ==
    <<"Could not open the API key selection dialog. Please try again.">>
NotFoundNeedle == <<"Requested entity was not found">>

\* What the platform and the remote services put in the errors they raise:
\* an invalid credential (the service answers 404 "Requested entity was not
\* found."), a quota failure, a network failure, an error with no message.
MsgCredential == <<"{code: 404, message: ", "Requested entity was not found", ".}">>
MsgQuota == <<"quota exceeded">>
MsgNetwork == <<"Failed to fetch">>
MsgEmpty == <<>>
RemoteMessages == {MsgCredential, MsgQuota, MsgEmpty}
TransportMessages == {MsgCredential, MsgNetwork}

\* s.includes(needle)
RECURSIVE Includes(_, _)
Includes(s, needle) ==
    IF Len(needle) > Len(s) THEN FALSE
    ELSE IF SubSeq(s, 1, Len(needle)) = needle THEN TRUE
    ELSE Includes(Tail(s), needle)

\* ------------------------------------------------------------------- texts
IsSpace(c) == c \in {" ", "\n", "\t"}

RECURSIVE TrimStart(_)
TrimStart(s) ==
    IF s = <<>> THEN s
    ELSE IF IsSpace(Head(s)) THEN TrimStart(Tail(s)) ELSE s

RECURSIVE TrimEnd(_)
TrimEnd(s) ==
    IF s = <<>> THEN s
    ELSE IF IsSpace(s[Len(s)]) THEN TrimEnd(SubSeq(s, 1, Len(s) - 1)) ELSE s

\* String.prototype.trim
Trim(s) == TrimEnd(TrimStart(s))

\* What the user may have typed in the prompt and script boxes.
Texts == { <<>>, <<" ", "\n">>, <<" ", "a", " ", "c", "a", "t">> }

Max(a, b) == IF a >= b THEN a ELSE b

\* ------------------------------------------------------------------ base64
B64Alphabet ==
    << "A","B","C","D","E","F","G","H","I","J","K","L","M","N","O","P",
       "Q","R","S","T","U","V","W","X","Y","Z","a","b","c","d","e","f",
       "g","h","i","j","k","l","m","n","o","p","q","r","s","t","u","v",
       "w","x","y","z","0","1","2","3","4","5","6","7","8","9","+","/" >>

IsB64Char(c) == \E i \in 1..64 : B64Alphabet[i] = c
B64Val(c) == (CHOOSE i \in 1..64 : B64Alphabet[i] = c) - 1

RECURSIVE DropSpaces(_)
DropSpaces(s) ==
    IF s = <<>> THEN s
    ELSE IF IsSpace(Head(s)) THEN DropSpaces(Tail(s))
    ELSE <<Head(s)>> \o DropSpaces(Tail(s))

\* atob, step 1-2: whitespace is removed; when the length is then a multiple
\* of 4, one or two trailing "=" are removed.
B64Data(s) ==
    LET t == DropSpaces(s)
        n == Len(t)
    IN  IF n > 0 /\ n % 4 = 0
        THEN IF t[n] = "=" /\ t[n - 1] = "=" THEN SubSeq(t, 1, n - 2)
             ELSE IF t[n] = "=" THEN SubSeq(t, 1, n - 1)
             ELSE t
        ELSE t

\* atob throws InvalidCharacterError on these.
AtobThrows(s) ==
    LET d == B64Data(s)
    IN  Len(d) % 4 = 1 \/ \E i \in 1..Len(d) : ~IsB64Char(d[i])

RECURSIVE B64Bytes(_)
B64Bytes(d) ==
    IF Len(d) >= 4
    THEN LET n == B64Val(d[1]) * 262144 + B64Val(d[2]) * 4096
                  + B64Val(d[3]) * 64 + B64Val(d[4])
         IN  << n \div 65536, (n \div 256) % 256, n % 256 >>
             \o B64Bytes(SubSeq(d, 5, Len(d)))
    ELSE IF Len(d) = 3
    THEN LET n == (B64Val(d[1]) * 4096 + B64Val(d[2]) * 64 + B64Val(d[3])) \div 4
         IN  << n \div 256, n % 256 >>
    ELSE IF Len(d) = 2
    THEN << (B64Val(d[1]) * 64 + B64Val(d[2])) \div 16 >>
    ELSE <<>>

\* The base64 text of a byte sequence, as the speech service puts it into
\* inlineData.data: three bytes per four characters, padded with "=".
RECURSIVE B64Encode(_)
B64Encode(bytes) ==
    IF Len(bytes) >= 3
    THEN LET n == bytes[1] * 65536 + bytes[2] * 256 + bytes[3]
         IN  << B64Alphabet[(n \div 262144) + 1],
                B64Alphabet[((n \div 4096) % 64) + 1],
                B64Alphabet[((n \div 64) % 64) + 1],
                B64Alphabet[(n % 64) + 1] >>
             \o B64Encode(SubSeq(bytes, 4, Len(bytes)))
    ELSE IF Len(bytes) = 2
    THEN LET n == (bytes[1] * 256 + bytes[2]) * 4
         IN  << B64Alphabet[(n \div 4096) + 1], B64Alphabet[((n \div 64) % 64) + 1],
                B64Alphabet[(n % 64) + 1], "=" >>
    ELSE IF Len(bytes) = 1
    THEN LET n == bytes[1] * 16
         IN  << B64Alphabet[(n \div 64) + 1], B64Alphabet[(n % 64) + 1], "=", "=" >>
    ELSE <<>>

\* decode(base64): atob, then one byte per character of the binary string.
decode(base64) == B64Bytes(B64Data(base64))

\* new Int16Array(raw.buffer): little-endian signed 16-bit views of the bytes
\* (defined when the byte length is even; the constructor throws otherwise).
Int16At(bytes, i) ==
    LET u == bytes[2 * i - 1] + 256 * bytes[2 * i]
    IN  IF u >= Int16Scale THEN u - 2 * Int16Scale ELSE u

Int16Array(bytes) == [i \in 1..(Len(bytes) \div 2) |-> Int16At(bytes, i)]

MsgInvalidCharacter == <<"Failed to execute 'atob': The string to be decoded is not correctly encoded.">>
MsgInt16Range == <<"byte length of Int16Array should be a multiple of 2">>
MsgZeroFrames == <<"Failed to execute 'createBuffer': The number of frames provided (0) is less than or equal to the minimum bound (0).">>

\* A float amplitude n/d.
Amp(n, d) == [num |-> n, den |-> d]

\* Variant: a trailing odd byte is dropped.
pcmToAudioBufferTruncating(base64Pcm) ==
    IF AtobThrows(base64Pcm)
    THEN [thrown |-> Some(MsgInvalidCharacter), buffer |-> Null]
    ELSE LET dataInt16 == Int16Array(decode(base64Pcm))
             frameCount == Len(dataInt16)
         IN  IF frameCount = 0
             THEN [thrown |-> Some(MsgZeroFrames), buffer |-> Null]
             ELSE [thrown |-> Null,
                   buffer |-> Some(
                     [length |-> frameCount,
                      sampleRate |-> SpeechSampleRate,
                      resampled |-> FALSE,
                      data |-> [i \in 1..frameCount |->
                                  Amp(dataInt16[i], Int16Scale)]])]

\* pcmToAudioBuffer(base64Pcm, context): either throws (thrown = the error's
\* message) or returns a one-channel buffer at 24 kHz with one frame per
\* 16-bit sample, each sample divided by 32768.
pcmToAudioBuffer(base64Pcm) ==
    IF AtobThrows(base64Pcm)
    THEN [thrown |-> Some(MsgInvalidCharacter), buffer |-> Null]
    ELSE LET raw == decode(base64Pcm)
         IN  IF Len(raw) % 2 # 0
             THEN [thrown |-> Some(MsgInt16Range), buffer |-> Null]
             ELSE LET dataInt16 == Int16Array(raw)
                      frameCount == Len(dataInt16)
                  IN  IF frameCount = 0
                      THEN [thrown |-> Some(MsgZeroFrames), buffer |-> Null]
                      ELSE [thrown |-> Null,
                            buffer |-> Some(
                              [length |-> frameCount,
                               sampleRate |-> SpeechSampleRate,
                               resampled |-> FALSE,
                               data |-> [i \in 1..frameCount |->
                                           Amp(dataInt16[i], Int16Scale)]])]

\* The base64 payloads the speech service may answer with: two samples
\* (1, 32767), two samples (-32768, -1), three bytes (odd length), nothing.
VoicePayloads ==
    { <<"A","Q","D","/","f","w","=","=">>,
      <<"A","I","D","/","/","w","=","=">>,
      <<"A","I","D","/">>,
      <<>> }

\* pcmToAudioBuffer applied to each of these payloads, computed once.
DecodedPayloads == { << p, pcmToAudioBuffer(p) >> : p \in VoicePayloads }

decodedPayload(base64Pcm) ==
    (CHOOSE d \in DecodedPayloads : d[1] = base64Pcm)[2]

\* ------------------------------------------------------------ remote values
\* An Operation as the video service reports it.  rev tells the reports of
\* one job apart (0 = the handle generateVideos returned, k = the k-th
\* status answer): it stands for the identity of the response object.
Operation(done, err, uri, rev) ==
    [done |-> done, error |-> err, uri |-> uri, rev |-> rev]

NotDoneOp(rev) == Operation(FALSE, Null, Null, rev)

DoneOps(rev) ==
    { Operation(TRUE, Null, Some("https://video/uri"), rev),
      Operation(TRUE, Null, Null, rev) }
    \cup { Operation(TRUE, Some(m), Null, rev) : m \in RemoteMessages }

\* The sample rates an AudioContext may come up with on the user's device.
ContextRates == {24000, 48000}

\* What decodeAudioData may produce from the music file, at the context's rate.
MusicBuffers(rate) ==
    { [length |-> 1, sampleRate |-> rate, resampled |-> FALSE,
       data |-> << Amp(1, 2) >>],
      [length |-> 2, sampleRate |-> rate, resampled |-> FALSE,
       data |-> << Amp(1, 2), Amp(-1, 2) >>],
      [length |-> 3, sampleRate |-> rate, resampled |-> FALSE,
       data |-> << Amp(0, 1), Amp(-1, 4), Amp(1, 1) >>] }

MsgDecodeAudio == <<"Unable to decode audio data">>
MsgRender == <<"Failed to execute 'startRendering'">>

Pending == [state |-> "pending", value |-> Null, reason |-> <<>>]
Fulfilled(v) == [state |-> "fulfilled", value |-> v, reason |-> <<>>]
Rejected(m) == [state |-> "rejected", value |-> Null, reason |-> m]
NoPromise == [state |-> "none", value |-> Null, reason |-> <<>>]

NoContext == [state |-> "none", sampleRate |-> 0]
NoResult == [returned |-> Null, thrown |-> Null]

\* ------------------------------------------------------------- VideoPlayer
\* DataView.setUint32 / setUint16 / setInt16 with littleEndian = true.
Uint32LE(n) ==
    << n % 256, (n \div 256) % 256, (n \div 65536) % 256,
       (n \div 16777216) % 256 >>

Uint16LE(n) == << n % 256, (n \div 256) % 256 >>

\* Variant: the sample is written high byte first.
Int16BE(v) == << ((v % 65536) \div 256) % 256, (v % 65536) % 256 >>

Int16LE(v) == Uint16LE(v % 65536)

\* str.charCodeAt(i), for the characters of the four chunk tags.
CharCode(c) ==
    CASE c = "R" -> 82  [] c = "I" -> 73  [] c = "F" -> 70  [] c = "W" -> 87
      [] c = "A" -> 65  [] c = "V" -> 86  [] c = "E" -> 69  [] c = "f" -> 102
      [] c = "m" -> 109 [] c = "t" -> 116 [] c = " " -> 32  [] c = "d" -> 100
      [] c = "a" -> 97

writeString(str) == [i \in 1..Len(str) |-> CharCode(str[i])]

\* The loop of writeWavHeader: sample i goes to bytes 2i-1 and 2i of the
\* data section.
RECURSIVE SampleBytes(_)
SampleBytes(samples) ==
    IF Len(samples) = 0 THEN <<>>
    ELSE Int16LE(Head(samples)) \o SampleBytes(Tail(samples))

\* writeWavHeader(samples, sampleRate, numChannels): the bytes of the file.
writeWavHeader(samples, sampleRate, numChannels) ==
    writeString(<<"R", "I", "F", "F">>)
    \o Uint32LE(36 + Len(samples) * 2)
    \o writeString(<<"W", "A", "V", "E">>)
    \o writeString(<<"f", "m", "t", " ">>)
    \o Uint32LE(16)
    \o Uint16LE(1)
    \o Uint16LE(numChannels)
    \o Uint32LE(sampleRate)
    \o Uint32LE(sampleRate * numChannels * 2)
    \o Uint16LE(numChannels * 2)
    \o Uint16LE(16)
    \o writeString(<<"d", "a", "t", "a">>)
    \o Uint32LE(Len(samples) * 2)
    \o SampleBytes(samples)

\* if (audioData): neither null nor the empty string.
Truthy(audioData) == audioData # Null /\ audioData[1] # <<>>

\* handleDownloadAudio: the file it saves, or what it throws.
handleDownloadAudio(audioData) ==
    IF ~Truthy(audioData) THEN [thrown |-> Null, file |-> Null]
    ELSE IF AtobThrows(audioData[1])
    THEN [thrown |-> Some(MsgInvalidCharacter), file |-> Null]
    ELSE LET raw == decode(audioData[1])
         IN  IF Len(raw) % 2 # 0
             THEN [thrown |-> Some(MsgInt16Range), file |-> Null]
             ELSE [thrown |-> Null,
                   file |-> Some(writeWavHeader(Int16Array(raw), 24000, 1))]

\* The component: its audioData prop as the effect last saw it, its state
\* (audioContext is an index into contexts), the audioContext value the
\* effect's cleanup closure captured, the contexts its effects created, what
\* an effect threw, and the file the last "Download Audio" click saved.
NoPlayer ==
    [ mounted |-> FALSE, audioData |-> Null, audioContext |-> Null,
      audioBuffer |-> Null, captured |-> Null, contexts |-> <<>>,
      thrown |-> Null, file |-> Null ]

\* The effect on audioData, run in a render whose audioContext state is
\* p.audioContext.  An error thrown by an effect unmounts the whole tree.
playerEffect(p, audioData) ==
    LET p0 == [p EXCEPT !.audioData = audioData]
    IN  IF ~Truthy(audioData)
        THEN [p0 EXCEPT !.captured = p.audioContext]
        ELSE LET ctx == Len(p.contexts) + 1
                 p1 == [p0 EXCEPT !.contexts = Append(@, "running")]
                 r == decodedPayload(audioData[1])
             IN  IF r.thrown # Null
                 THEN [p1 EXCEPT !.mounted = FALSE, !.thrown = r.thrown,
                                 !.audioContext = Null, !.audioBuffer = Null,
                                 !.captured = Null]
                 ELSE [p1 EXCEPT !.audioContext = Some(ctx),
                                 !.audioBuffer = r.buffer,
                                 !.captured = p.audioContext]

\* return () => { audioContext?.close() }
playerCleanup(p) ==
    IF p.captured = Null THEN p
    ELSE [p EXCEPT !.contexts[p.captured[1]] = "closed"]

\* The component leaves the tree: the cleanup runs, the state is dropped.
playerUnmount(p) ==
    [playerCleanup(p) EXCEPT !.mounted = FALSE, !.audioData = Null,
                             !.audioContext = Null, !.audioBuffer = Null,
                             !.captured = Null, !.file = Null]

\* --------------------------------------------------------------- the codec
\* The byte values and the byte sequences the codec functions are tried on
\* (the speech call rejects an empty payload, so none is empty).
PcmByteValues == {0, 1, 127, 128, 255}

PcmInputs == UNION { [1..n -> PcmByteValues] : n \in 1..MaxPcmBytes }

\* One trial: the PCM bytes, their base64 text once the service has encoded
\* them, what pcmToAudioBuffer made of it, what handleDownloadAudio made of it.
NoCodec ==
    [ stage |-> "none", pcm |-> <<>>, base64 |-> <<>>,
      played |-> FALSE, playback |-> [thrown |-> Null, buffer |-> Null],
      saved |-> FALSE, download |-> [thrown |-> Null, file |-> Null] ]

\* isLoading ? <Loader/> : videoUrl ? <VideoPlayer/> : ..., in the main
\* view of App.tsx.
PlayerShown(s) ==
    /\ s.build = "App.tsx" /\ s.player.thrown = Null
    /\ ~s.checkingApiKey /\ s.hasApiKey /\ ~s.isLoading /\ s.videoUrl # Null

\* The render that follows a change of state mounts, updates or unmounts
\* the player and runs its effect or cleanup.
Rendered(s) ==
    IF PlayerShown(s)
    THEN IF ~s.player.mounted
         THEN [s EXCEPT !.player =
                 playerEffect([NoPlayer EXCEPT !.mounted = TRUE], s.audioData)]
         ELSE IF s.player.audioData # s.audioData
         THEN [s EXCEPT !.player =
                 playerEffect(playerCleanup(s.player), s.audioData)]
         ELSE s
    ELSE IF s.player.mounted
    THEN [s EXCEPT !.player = playerUnmount(s.player)]
    ELSE s

\* ------------------------------------------------------------------- state
VARIABLES
    build,            \* "App.tsx" or "part_001": the revision of the component
    apiKey,           \* process.env.API_KEY is set
    prompt, script, backgroundMusic,          \* the form
    isLoading, loadingMessage, error, hasApiKey, checkingApiKey,
    videoUrl,         \* the video handle
    audioData,        \* the audio handle of App.tsx (base64 text)
    audioBuffer,      \* the audio handle of part_001 (AudioBuffer)
    pc,               \* where handleSubmit is suspended; "done" = it has just
                      \* finished, "idle" = no request since the last UI event
    outcome,          \* how the last handleSubmit ended
    voicePromise, musicPromise,               \* step 1's two requests
    audioContext, voiceBuffer, musicBuffer,   \* step 1's locals
    pollState,        \* pollVideoOperation: "none", "running", "returned", "thrown"
    currentOperation, messageIndex, intervalActive,  \* its locals and timer
    pollCount,        \* getVideosOperation requests issued by this call
    responses,        \* the answers they got, in order
    pollResult,       \* what the call returned or threw
    lateProgress,     \* onProgress was invoked after the call had settled
    failedAttempt,    \* the status request that was rejected (0 = none)
    cause,            \* the message of the error as first raised, before any
                      \* handler replaced it
    issued,           \* remote requests issued by the current handleSubmit
    videoResponse,    \* handleSubmit's local: the ok flag of the fetch response
    player,           \* the VideoPlayer component
    codec             \* a trial of the PCM codec functions on one input

vars ==
    << build, apiKey, prompt, script, backgroundMusic, isLoading,
       loadingMessage, error, hasApiKey, checkingApiKey, videoUrl, audioData,
       audioBuffer, pc, outcome, voicePromise, musicPromise, audioContext,
       voiceBuffer, musicBuffer, pollState, currentOperation, messageIndex,
       intervalActive, pollCount, responses, pollResult, lateProgress,
       failedAttempt, cause, issued, videoResponse, player,
       codec >>

\* The state as one record, so that a handler is a function from the state
\* before it runs to the state it leaves, composed as its statements are.
Cur ==
    [ build |-> build, apiKey |-> apiKey, prompt |-> prompt, script |-> script,
      backgroundMusic |-> backgroundMusic, isLoading |-> isLoading,
      loadingMessage |-> loadingMessage, error |-> error,
      hasApiKey |-> hasApiKey, checkingApiKey |-> checkingApiKey,
      videoUrl |-> videoUrl, audioData |-> audioData,
      audioBuffer |-> audioBuffer, pc |-> pc, outcome |-> outcome,
      voicePromise |-> voicePromise, musicPromise |-> musicPromise,
      audioContext |-> audioContext, voiceBuffer |-> voiceBuffer,
      musicBuffer |-> musicBuffer, pollState |-> pollState,
      currentOperation |-> currentOperation, messageIndex |-> messageIndex,
      intervalActive |-> intervalActive, pollCount |-> pollCount,
      responses |-> responses, pollResult |-> pollResult,
      lateProgress |-> lateProgress, failedAttempt |-> failedAttempt,
      cause |-> cause, issued |-> issued, videoResponse |-> videoResponse,
      player |-> player, codec |-> codec ]

Assigned(s) ==
    /\ build' = s.build /\ apiKey' = s.apiKey /\ prompt' = s.prompt
    /\ script' = s.script /\ backgroundMusic' = s.backgroundMusic
    /\ isLoading' = s.isLoading /\ loadingMessage' = s.loadingMessage
    /\ error' = s.error /\ hasApiKey' = s.hasApiKey
    /\ checkingApiKey' = s.checkingApiKey /\ videoUrl' = s.videoUrl
    /\ audioData' = s.audioData /\ audioBuffer' = s.audioBuffer
    /\ pc' = s.pc /\ outcome' = s.outcome
    /\ voicePromise' = s.voicePromise /\ musicPromise' = s.musicPromise
    /\ audioContext' = s.audioContext /\ voiceBuffer' = s.voiceBuffer
    /\ musicBuffer' = s.musicBuffer /\ pollState' = s.pollState
    /\ currentOperation' = s.currentOperation
    /\ messageIndex' = s.messageIndex /\ intervalActive' = s.intervalActive
    /\ pollCount' = s.pollCount /\ responses' = s.responses
    /\ pollResult' = s.pollResult /\ lateProgress' = s.lateProgress
    /\ failedAttempt' = s.failedAttempt /\ cause' = s.cause
    /\ issued' = s.issued /\ videoResponse' = s.videoResponse
    /\ player' = s.player /\ codec' = s.codec

\* The handler leaves s; React renders it.  (s and the rendered state are
\* bound once, as values.)
Becomes(s) == \E t \in {s} : \E r \in {Rendered(t)} : Assigned(r)

Init ==
    /\ build \in {"App.tsx", "part_001"}
    /\ apiKey \in BOOLEAN
    /\ prompt = <<>> /\ script = <<>> /\ backgroundMusic = "none"
    /\ isLoading = FALSE
    /\ loadingMessage = "Initializing video generation..."
    /\ error = Null
    /\ hasApiKey = FALSE /\ checkingApiKey = TRUE
    /\ videoUrl = Null /\ audioData = Null /\ audioBuffer = Null
    /\ pc = "idle" /\ outcome = "none"
    /\ voicePromise = NoPromise /\ musicPromise = NoPromise
    /\ audioContext = NoContext /\ voiceBuffer = Null /\ musicBuffer = Null
    /\ pollState = "none" /\ currentOperation = Null /\ messageIndex = 0
    /\ intervalActive = FALSE /\ pollCount = 0 /\ responses = <<>>
    /\ pollResult = NoResult /\ lateProgress = FALSE
    /\ failedAttempt = 0 /\ cause = Null
    /\ issued = <<>> /\ videoResponse = Null
    /\ player = NoPlayer /\ codec = NoCodec

\* ---------------------------------------------------- handleSubmit, the end
setLoadingMessage(s, m) == [s EXCEPT !.loadingMessage = m]

Issue(s, request) == [s EXCEPT !.issued = Append(@, request)]

\* catch (e) { ... } finally { setIsLoading(false) }, e.message = m.
catchFinally(s, m) ==
    LET errorMessage == IF m = <<>> THEN MsgUnknown ELSE m
        revoked == Includes(errorMessage, NotFoundNeedle)
    IN  [s EXCEPT !.cause = IF @ = Null THEN Some(m) ELSE @,
                  !.error = Some(IF revoked THEN MsgInvalidKey ELSE errorMessage),
                  !.hasApiKey = IF revoked THEN FALSE ELSE @,
                  !.isLoading = FALSE,
                  !.pc = "done",
                  !.outcome = "failed"]

\* Variant: loading is cleared in catch only, not in finally.
finallySuccessKeepsLoading(s) ==
    [s EXCEPT !.pc = "done", !.outcome = "success"]

\* The try block ran to its end: finally { setIsLoading(false) }.
finallySuccess(s) ==
    [s EXCEPT !.isLoading = FALSE, !.pc = "done", !.outcome = "success"]

\* const downloadLink = finalOperation.response?.generatedVideos?.[0]?.video?.uri
\* and the branch on it, up to the await of fetch.
fetchFinalVideo(s, finalOperation) ==
    LET downloadLink == finalOperation.uri
    IN  IF downloadLink # Null /\ s.apiKey
        THEN [Issue(setLoadingMessage(s, "Fetching final video..."), "fetchVideo")
                EXCEPT !.pc = "awaitFetch"]
        ELSE catchFinally(s, MsgNoDownloadLink)

\* Variant: the response's status is not looked at.
afterFetchIgnoresStatus(s, ok) ==
    [s EXCEPT !.videoResponse = Some(ok), !.pc = "awaitBlob"]

\* if (!videoResponse.ok) throw ...; then the await of videoResponse.blob().
afterFetch(s, ok) ==
    LET s1 == [s EXCEPT !.videoResponse = Some(ok)]
    IN  IF ~ok THEN catchFinally(s1, MsgDownloadFailed)
        ELSE [s1 EXCEPT !.pc = "awaitBlob"]

\* ---------------------------------------------------- pollVideoOperation
\* Variant: keeps polling a finished job that reported an error.
WhileConditionRetryOnError(op) == ~op.done \/ op.error # Null

\* while (!currentOperation.done)
WhileCondition(op) == ~op.done

\* Variant: the reported reason is left out of the message.
GenerationFailedMessageGeneric(op) == MsgGenerationFailedPrefix

\* `Video generation failed: ${currentOperation.error.message}`
GenerationFailedMessage(op) == MsgGenerationFailedPrefix \o op.error[1]

clearInterval(s) == [s EXCEPT !.intervalActive = FALSE]

\* The call settles: it throws into handleSubmit's catch, or returns to it.
pollThrows(s, m) ==
    catchFinally([s EXCEPT !.pollState = "thrown",
                           !.pollResult = [returned |-> Null, thrown |-> Some(m)]],
                 m)

pollReturns(s, op) ==
    fetchFinalVideo([s EXCEPT !.pollState = "returned",
                              !.pollResult = [returned |-> Some(op), thrown |-> Null]],
                    op)

\* After the loop: clearInterval, then throw on a reported error or return.
pollAfterLoop(s) ==
    LET op == s.currentOperation[1]
        s1 == clearInterval(s)
    IN  IF op.error # Null
        THEN pollThrows(s1, GenerationFailedMessage(op))
        ELSE pollReturns(s1, op)

\* Variant: an `if` in place of the `while` (one status check at most).
pollLoopOnce(s) == pollAfterLoop(s)

\* The loop head, reached on entry and after every status answer.
pollLoop(s) ==
    IF WhileCondition(s.currentOperation[1])
    THEN [s EXCEPT !.pc = "pollSleep"]
    ELSE pollAfterLoop(s)

\* Variant: the catch block swallows the error and the loop polls again.
pollRequestFailedRetry(s) == [s EXCEPT !.pc = "pollSleep"]

\* Variant: the catch block rethrows without clearInterval.
pollRequestFailedNoClear(s) == pollThrows(s, MsgStatusCheckFailed)

\* catch (e) of the status request: clearInterval, log, rethrow a fixed text.
pollRequestFailed(s) == pollThrows(clearInterval(s), MsgStatusCheckFailed)

\* pollVideoOperation(operation, onProgress), up to its first await or its end.
pollVideoOperation(s, operation) ==
    LET s0 == [s EXCEPT !.pollState = "running", !.currentOperation = Null,
                        !.messageIndex = 0, !.intervalActive = FALSE,
                        !.pollCount = 0, !.responses = <<>>,
                        !.pollResult = NoResult]
    IN  IF ~s.apiKey
        THEN pollThrows(s0, MsgApiKeyNotSet)
        ELSE pollLoop([s0 EXCEPT !.currentOperation = Some(operation),
                                 !.messageIndex = 0,
                                 !.intervalActive = TRUE])

\* Variant: the callback also cuts the loop's 10 s wait short.
progressCallbackWakesPoll(s) ==
    LET next == (s.messageIndex + 1) % Len(LOADING_MESSAGES)
        s1 == [setLoadingMessage(s, LOADING_MESSAGES[next + 1])
                 EXCEPT !.messageIndex = next]
    IN  IF s.pc = "pollSleep"
        THEN [Issue(s1, "getVideosOperation")
                EXCEPT !.pollCount = @ + 1, !.pc = "pollRequest"]
        ELSE s1

\* The setInterval callback.
progressCallback(s) ==
    LET next == (s.messageIndex + 1) % Len(LOADING_MESSAGES)
    IN  [setLoadingMessage(s, LOADING_MESSAGES[next + 1])
           EXCEPT !.messageIndex = next,
                  !.lateProgress = @ \/ s.pollState \in {"returned", "thrown"}]

\* ------------------------------------------------ handleSubmit, steps 2 and 3
\* Step 2 up to the await of generateVideo (which checks the key first).
startVideo(s) ==
    LET s1 == setLoadingMessage(s, "Starting video generation process...")
    IN  IF ~s.apiKey
        THEN catchFinally(s1, MsgApiKeyNotSet)
        ELSE [Issue(s1, "generateVideos") EXCEPT !.pc = "awaitGenerateVideo"]

\* Step 3: generateVideo resolved with initialOperation.
startPolling(s, initialOperation) ==
    pollVideoOperation(
        setLoadingMessage(s, "Video is rendering... this may take a few minutes."),
        initialOperation)

\* ------------------------------------------------------ handleSubmit, step 1
\* Variant: the script is tested without trim().
HasScriptUntrimmed(s) == s.script # <<>>

\* if (script.trim())
HasScript(s) == Trim(s.script) # <<>>

\* Variant: the selection is compared with the label 'None', not the key.
WantsMusicByLabel(s) == s.backgroundMusic # "None"

\* if (backgroundMusic !== 'none')
WantsMusic(s) == s.backgroundMusic # "none"

\* generateAudio up to its await: the key check, then the speech request.
generateAudio(s) ==
    IF ~s.apiKey
    THEN [s EXCEPT !.voicePromise = Rejected(MsgApiKeyNotSet)]
    ELSE [Issue(s, "generateContent") EXCEPT !.voicePromise = Pending]

\* What generateAudio makes of the service's answer: a missing or empty
\* payload is an error.
audioResult(base64Audio) ==
    IF base64Audio = <<>> THEN Rejected(MsgNoAudioData)
    ELSE Fulfilled(Some(base64Audio))

AmpAdd(a, b) == Amp(a.num * b.den + b.num * a.den, a.den * b.den)
SampleAt(buffer, i) == IF i <= buffer.length THEN buffer.data[i] ELSE Amp(0, 1)
\* musicGainNode.gain.value = 0.2
Gain(a) == Amp(a.num, 5 * a.den)

\* Variant: the offline context is as long as the voice.
mixedBufferVoiceLength(voice, music, rate) ==
    [length |-> voice.length,
     sampleRate |-> rate,
     resampled |-> (voice.sampleRate # rate \/ music.sampleRate # rate),
     data |-> [i \in 1..voice.length |->
                 AmpAdd(SampleAt(voice, i), Gain(SampleAt(music, i)))]]

\* mixContext.startRendering(): max(voice, music) frames at the context's
\* rate, voice at full gain plus music at 0.2.  When a source's rate is not
\* the context's, the source is resampled and data (the sample-wise sum)
\* stands for the rendering in length only.
mixedBuffer(voice, music, rate) ==
    LET n == Max(voice.length, music.length)
    IN  [length |-> n,
         sampleRate |-> rate,
         resampled |-> (voice.sampleRate # rate \/ music.sampleRate # rate),
         data |-> [i \in 1..n |->
                     AmpAdd(SampleAt(voice, i), Gain(SampleAt(music, i)))]]

\* After Promise.all resolved: decode the voice, then mix or use it alone.
afterJoin(s) ==
    LET voiceBase64 == s.voicePromise.value[1]
        musicArrayBuffer == s.musicPromise.value
        decoded == decodedPayload(voiceBase64)
    IN  IF decoded.thrown # Null
        THEN catchFinally(s, decoded.thrown[1])
        ELSE LET s1 == [s EXCEPT !.voiceBuffer = decoded.buffer]
             IN  IF musicArrayBuffer # Null
                 THEN [setLoadingMessage(s1, "Mixing audio tracks...")
                         EXCEPT !.pc = "awaitDecode"]
                 ELSE [s1 EXCEPT !.audioBuffer = decoded.buffer,
                                 !.pc = "awaitClose"]

\* await Promise.all([voicePromise, musicPromise]): rejects with the first
\* rejection, resolves when both have resolved.
joinAll(s) ==
    IF s.voicePromise.state = "rejected"
    THEN catchFinally(s, s.voicePromise.reason)
    ELSE IF s.musicPromise.state = "rejected"
    THEN catchFinally(s, s.musicPromise.reason)
    ELSE IF s.voicePromise.state = "fulfilled" /\ s.musicPromise.state = "fulfilled"
    THEN afterJoin(s)
    ELSE [s EXCEPT !.pc = "awaitAll"]

\* Variant: the music fetch is not started while the voice is outstanding.
startAudioMixSequential(s, rate) ==
    LET s1 == [s EXCEPT !.audioContext = [state |-> "running", sampleRate |-> rate]]
        s2 == generateAudio(setLoadingMessage(s1, "Generating voice-over..."))
    IN  joinAll(s2)

\* Step 1 of part_001, up to the await of Promise.all.
startAudioMix(s, rate) ==
    LET s1 == [s EXCEPT !.audioContext = [state |-> "running", sampleRate |-> rate]]
        s2 == generateAudio(setLoadingMessage(s1, "Generating voice-over..."))
        s3 == IF WantsMusic(s2)
              THEN [Issue(setLoadingMessage(s2, "Fetching background music..."),
                          "fetchMusic")
                      EXCEPT !.musicPromise = Pending]
              ELSE [s2 EXCEPT !.musicPromise = Fulfilled(Null)]
    IN  joinAll(s3)

\* Variant: the speech request is not awaited.
startAudioNotAwaited(s) ==
    startVideo(generateAudio(setLoadingMessage(s, "Generating voice-over audio...")))

\* Step 1 of App.tsx, up to the await of generateAudio.
startAudio(s) ==
    LET s1 == generateAudio(setLoadingMessage(s, "Generating voice-over audio..."))
    IN  IF s1.voicePromise.state = "rejected"
        THEN catchFinally(s1, s1.voicePromise.reason)
        ELSE [s1 EXCEPT !.pc = "awaitAudio"]

\* Variant: the error of the previous request is left in place.
resetRequestKeepsError(s) ==
    [s EXCEPT !.isLoading = TRUE, !.videoUrl = Null, !.audioData = Null,
              !.audioBuffer = Null]

\* setIsLoading(true); setError(null); setVideoUrl(null); setAudioData(null)
\* (setAudioBuffer(null) in part_001).
resetRequest(s) ==
    [s EXCEPT !.isLoading = TRUE, !.error = Null, !.videoUrl = Null,
              !.audioData = Null, !.audioBuffer = Null]

\* handleSubmit up to its first await (or its end); rate is the sample rate
\* the device gives a new AudioContext.
handleSubmit(s, rate) ==
    IF Trim(s.prompt) = <<>>
    THEN [s EXCEPT !.error = Some(MsgNoPrompt), !.pc = "done",
                   !.outcome = "rejected"]
    ELSE LET s1 == [resetRequest(s) EXCEPT
                             !.outcome = "running",
                             !.issued = <<>>,
                             !.voicePromise = NoPromise,
                             !.musicPromise = NoPromise,
                             !.audioContext = NoContext,
                             !.voiceBuffer = Null,
                             !.musicBuffer = Null,
                             !.pollState = "none",
                             !.currentOperation = Null,
                             !.pollCount = 0,
                             !.responses = <<>>,
                             !.pollResult = NoResult,
                             !.failedAttempt = 0,
                             !.cause = Null,
                             !.videoResponse = Null]
         IN  IF HasScript(s1)
             THEN IF s.build = "part_001" THEN startAudioMix(s1, rate)
                  ELSE startAudio(s1)
             ELSE startVideo(s1)

\* ------------------------------------------------------------------ actions
\* The form is rendered (neither the "Loading..." nor the key screen).
FormShown == ~checkingApiKey /\ hasApiKey /\ player.thrown = Null

\* The locals of a handleSubmit call that has finished are gone.
Forgotten(s) ==
    [s EXCEPT !.pc = "idle", !.outcome = "none", !.issued = <<>>,
              !.voicePromise = NoPromise, !.musicPromise = NoPromise,
              !.audioContext = NoContext, !.voiceBuffer = Null,
              !.musicBuffer = Null, !.pollState = "none",
              !.currentOperation = Null, !.messageIndex = 0, !.pollCount = 0,
              !.responses = <<>>, !.pollResult = NoResult,
              !.failedAttempt = 0, !.cause = Null, !.videoResponse = Null]

\* A UI event; the first one after a request has finished ends the
\* observation of that request.
Touched(s) == IF s.pc = "done" THEN Forgotten(s) ELSE s

\* checkApiKey, run once on mount.
CheckApiKey ==
    /\ checkingApiKey
    /\ \E selected \in BOOLEAN :
         Becomes([Cur EXCEPT !.hasApiKey = selected, !.checkingApiKey = FALSE])

\* handleSelectKey, from the key screen.
SelectKey ==
    /\ ~checkingApiKey /\ ~hasApiKey
    /\ \E opened \in BOOLEAN :
         Becomes(Touched(IF opened
                         THEN [Cur EXCEPT !.hasApiKey = TRUE]
                         ELSE [Cur EXCEPT !.error = Some(MsgSelectKeyDialog)]))

\* The text areas and the music select (disabled while loading; the music
\* select exists in part_001 only and is disabled without a script).
SetPrompt ==
    /\ FormShown /\ ~isLoading
    /\ \E t \in Texts \ {prompt} : Becomes(Touched([Cur EXCEPT !.prompt = t]))

SetScript ==
    /\ FormShown /\ ~isLoading
    /\ \E t \in Texts \ {script} : Becomes(Touched([Cur EXCEPT !.script = t]))

SetBackgroundMusic ==
    /\ FormShown /\ ~isLoading
    /\ build = "part_001" /\ Trim(script) # <<>>
    /\ \E m \in MUSIC_TRACKS \ {backgroundMusic} :
         Becomes(Touched([Cur EXCEPT !.backgroundMusic = m]))

\* The banner's close button.
DismissError ==
    /\ FormShown /\ error # Null
    /\ Becomes(Touched([Cur EXCEPT !.error = Null]))

\* The "Generate Reel" button (disabled while loading or without a prompt).
Submit ==
    /\ FormShown /\ ~isLoading /\ Trim(prompt) # <<>>
    /\ pc \in {"idle", "done"}
    /\ \E rate \in ContextRates :
         /\ (build = "part_001" /\ HasScript(Cur)) \/ rate = SpeechSampleRate
         /\ Becomes(handleSubmit(Cur, rate))

\* The speech request settles.
VoiceSettles ==
    /\ voicePromise.state = "pending"
    /\ \E settled \in {audioResult(p) : p \in VoicePayloads}
                      \cup {Rejected(m) : m \in TransportMessages} :
         LET s1 == [Cur EXCEPT !.voicePromise = settled]
         IN  Becomes(
               IF pc = "awaitAll" THEN joinAll(s1)
               ELSE IF pc = "awaitAudio"
               THEN IF settled.state = "rejected"
                    THEN catchFinally(s1, settled.reason)
                    ELSE startVideo([s1 EXCEPT !.audioData = settled.value])
               ELSE s1)

\* The music fetch settles: ok and read, not ok, or a network failure.
MusicSettles ==
    /\ musicPromise.state = "pending"
    /\ \E settled \in {Fulfilled(Some("mp3")), Rejected(MsgFetchMusic),
                       Rejected(MsgNetwork)} :
         LET s1 == [Cur EXCEPT !.musicPromise = settled]
         IN  Becomes(IF pc = "awaitAll" THEN joinAll(s1) ELSE s1)

\* audioContext.decodeAudioData settles; on success the mix is set up and
\* rendering starts.
DecodeSettles ==
    /\ pc = "awaitDecode"
    /\ \/ \E music \in MusicBuffers(audioContext.sampleRate) :
            Becomes([Cur EXCEPT !.musicBuffer = Some(music), !.pc = "awaitRender"])
       \/ Becomes(catchFinally(Cur, MsgDecodeAudio))

\* mixContext.startRendering settles.
RenderSettles ==
    /\ pc = "awaitRender"
    /\ \/ Becomes([Cur EXCEPT
                     !.audioBuffer = Some(mixedBuffer(voiceBuffer[1], musicBuffer[1],
                                                      audioContext.sampleRate)),
                     !.pc = "awaitClose"])
       \/ Becomes(catchFinally(Cur, MsgRender))

\* audioContext.close() settles; step 2 follows.
CloseSettles ==
    /\ pc = "awaitClose"
    /\ Becomes(startVideo([Cur EXCEPT !.audioContext.state = "closed"]))

\* The video request settles; on success polling starts.
GenerateVideoSettles ==
    /\ pc = "awaitGenerateVideo"
    /\ \/ \E op \in {NotDoneOp(0)} \cup DoneOps(0) : Becomes(startPolling(Cur, op))
       \/ \E m \in TransportMessages : Becomes(catchFinally(Cur, m))

\* The 10 s wait of the loop is over: the status request is issued.
PollTimerFires ==
    /\ pc = "pollSleep"
    /\ Becomes([Issue(Cur, "getVideosOperation")
                  EXCEPT !.pollCount = @ + 1, !.pc = "pollRequest"])

\* The status request settles.
StatusAnswers ==
    /\ pc = "pollRequest"
    /\ \/ \E op \in {NotDoneOp(pollCount)} \cup DoneOps(pollCount) :
            /\ ~op.done => pollCount <= MaxPolls
            /\ Becomes(pollLoop([Cur EXCEPT !.currentOperation = Some(op),
                                            !.responses = Append(@, op)]))
       \/ \E m \in TransportMessages :
            Becomes(pollRequestFailed([Cur EXCEPT !.failedAttempt = pollCount,
                                                  !.cause = Some(m)]))

\* The progress timer fires.
ProgressTick ==
    /\ intervalActive
    /\ Becomes(progressCallback(Cur))

\* The fetch of the finished video settles.
FetchSettles ==
    /\ pc = "awaitFetch"
    /\ \/ \E ok \in BOOLEAN : Becomes(afterFetch(Cur, ok))
       \/ \E m \in TransportMessages : Becomes(catchFinally(Cur, m))

\* videoResponse.blob() settles.
BlobSettles ==
    /\ pc = "awaitBlob"
    /\ \/ Becomes(finallySuccess([Cur EXCEPT !.videoUrl = Some("blob:video")]))
       \/ Becomes(catchFinally(Cur, MsgNetwork))

\* The "Download Audio" button of the player (rendered with audioData).
DownloadAudio ==
    /\ player.mounted /\ Truthy(player.audioData)
    /\ Becomes(Touched([Cur EXCEPT
                          !.player.file = handleDownloadAudio(audioData).file]))

Next ==
    \/ CheckApiKey \/ SelectKey
    \/ SetPrompt \/ SetScript \/ SetBackgroundMusic \/ DismissError
    \/ Submit
    \/ VoiceSettles \/ MusicSettles \/ DecodeSettles \/ RenderSettles
    \/ CloseSettles
    \/ GenerateVideoSettles \/ PollTimerFires \/ StatusAnswers \/ ProgressTick
    \/ FetchSettles \/ BlobSettles
    \/ DownloadAudio

Spec == Init /\ [][Next]_vars

\* Every remote call that is outstanding settles in the end, and the timer
\* of the poller's 10 s wait fires.
SpecLive ==
    /\ Spec
    /\ WF_vars(VoiceSettles) /\ WF_vars(MusicSettles)
    /\ WF_vars(DecodeSettles) /\ WF_vars(RenderSettles)
    /\ WF_vars(CloseSettles) /\ WF_vars(GenerateVideoSettles)
    /\ WF_vars(PollTimerFires) /\ WF_vars(StatusAnswers)
    /\ WF_vars(FetchSettles) /\ WF_vars(BlobSettles)

\* ------------------------------------------------- the codec, input by input
\* The application has not started; a trial holds one PCM byte sequence.
InitCodec ==
    /\ build = "App.tsx" /\ apiKey = TRUE
    /\ prompt = <<>> /\ script = <<>> /\ backgroundMusic = "none"
    /\ isLoading = FALSE
    /\ loadingMessage = "Initializing video generation..."
    /\ error = Null
    /\ hasApiKey = FALSE /\ checkingApiKey = TRUE
    /\ videoUrl = Null /\ audioData = Null /\ audioBuffer = Null
    /\ pc = "idle" /\ outcome = "none"
    /\ voicePromise = NoPromise /\ musicPromise = NoPromise
    /\ audioContext = NoContext /\ voiceBuffer = Null /\ musicBuffer = Null
    /\ pollState = "none" /\ currentOperation = Null /\ messageIndex = 0
    /\ intervalActive = FALSE /\ pollCount = 0 /\ responses = <<>>
    /\ pollResult = NoResult /\ lateProgress = FALSE
    /\ failedAttempt = 0 /\ cause = Null
    /\ issued = <<>> /\ videoResponse = Null
    /\ player = NoPlayer
    /\ codec \in { [NoCodec EXCEPT !.stage = "pcm", !.pcm = b] : b \in PcmInputs }

\* The speech service answers with the bytes as base64 text.
ServiceEncodes ==
    /\ codec.stage = "pcm"
    /\ Becomes([Cur EXCEPT !.codec.stage = "payload",
                           !.codec.base64 = B64Encode(codec.pcm)])

\* The payload is decoded for playback.
DecodesPayload ==
    /\ codec.stage = "payload" /\ ~codec.played
    /\ Becomes([Cur EXCEPT !.codec.played = TRUE,
                           !.codec.playback = pcmToAudioBuffer(codec.base64)])

\* The payload is saved as a WAV file.
SavesPayload ==
    /\ codec.stage = "payload" /\ ~codec.saved
    /\ Becomes([Cur EXCEPT !.codec.saved = TRUE,
                           !.codec.download = handleDownloadAudio(Some(codec.base64))])

NextCodec == ServiceEncodes \/ DecodesPayload \/ SavesPayload

SpecCodec == InitCodec /\ [][NextCodec]_vars

\* ------------------------------------------------------- the poller's claims
PollSettled == pollState \in {"returned", "thrown"}
LastResponse == responses[Len(responses)]

\* C1: a status request is issued only while the current operation is not
\* done: once the call holds an operation with done = true (the one passed
\* in or a status answer), its count of status requests never grows again.
C1_PollOnlyWhileNotDone ==
    [][(currentOperation # Null /\ currentOperation[1].done)
         => pollCount' <= pollCount]_vars

\* A call that polled, was answered "done" and so stopped polling.
C1_Witness ==
    /\ PollSettled /\ pollCount >= 2
    /\ currentOperation # Null /\ currentOperation[1].done

\* C2: a call returns only an operation that is done and has no error, and
\* it is the very object it holds as current; when it polled, it returns
\* after exactly n + 1 status requests, where the first n answers were "not
\* done" and the last answer, done without error, is the operation returned.
\* And an answer "done without error" makes the call return.
C2_ReturnsAfterNPlusOnePolls ==
    /\ pollState = "returned" =>
         /\ pollResult.returned # Null
         /\ pollResult.returned = currentOperation
         /\ pollResult.returned[1].done
         /\ pollResult.returned[1].error = Null
         /\ pollCount = Len(responses)
         /\ \A i \in 1..Len(responses) :
              responses[i].done <=> i = Len(responses)
         /\ pollCount > 0 => pollResult.returned[1] = LastResponse
    /\ (responses # <<>> /\ LastResponse.done /\ LastResponse.error = Null)
         => pollState = "returned"

\* The spec's scenario: not done, not done, done.
C2_Witness ==
    /\ pollState = "returned" /\ pollCount = 3
    /\ ~responses[1].done /\ ~responses[2].done /\ responses[3].done

\* C3: when status request number k is rejected, the call has thrown the
\* fixed "status check" message, request k stays the last one issued, and
\* the message is none a job-reported failure can produce.
C3_TransportFailureIsFatal ==
    failedAttempt > 0 =>
      /\ pollState = "thrown"
      /\ pollResult.thrown = Some(MsgStatusCheckFailed)
      /\ pollResult.returned = Null
      /\ pollCount = failedAttempt
      /\ pc \notin {"pollSleep", "pollRequest"}
      /\ ~Includes(pollResult.thrown[1], MsgGenerationFailedPrefix)
      /\ \A op \in DoneOps(0) :
           op.error # Null => pollResult.thrown[1] # GenerationFailedMessage(op)

\* The spec's scenario: the second status request is rejected.
C3_Witness ==
    /\ failedAttempt = 2 /\ pollState = "thrown" /\ Len(responses) = 1

\* C4: when the operation the call holds is done and carries an error, the
\* call has thrown a message that contains the error's message, it returned
\* nothing, and the request has failed.
C4_ReportedErrorIsThrown ==
    (currentOperation # Null /\ currentOperation[1].done
       /\ currentOperation[1].error # Null)
    => /\ pollState = "thrown"
       /\ pollResult.returned = Null
       /\ pollResult.thrown # Null
       /\ Includes(pollResult.thrown[1], currentOperation[1].error[1])
       /\ Includes(pollResult.thrown[1], MsgGenerationFailedPrefix)
       /\ outcome = "failed"

\* The spec's scenario: done with error "quota exceeded".
C4_Witness ==
    /\ pollState = "thrown" /\ currentOperation # Null
    /\ currentOperation[1].error = Some(MsgQuota)
    /\ Includes(pollResult.thrown[1], MsgQuota)

\* C5: once the call has returned or thrown, the progress timer is not
\* active and onProgress has not been invoked since.
C5_TimerCancelledOnExit ==
    /\ PollSettled => ~intervalActive
    /\ ~lateProgress

\* The timer ran (it fired at least once) and the call ended on a rejected
\* status request.
C5_Witness ==
    /\ pollState = "thrown" /\ failedAttempt > 0 /\ messageIndex > 0
    /\ ~intervalActive

\* C6: a tick of the progress timer leaves the current operation, the count
\* and the answers of the status requests, the call's position and its
\* outcome as they were; only the message index and the progress text move.
C6_TickFrame ==
    [][ProgressTick =>
         /\ UNCHANGED << currentOperation, pollCount, responses, pollState,
                         pollResult, failedAttempt, pc, outcome, issued,
                         intervalActive, isLoading, error, videoUrl >>
         /\ messageIndex' = (messageIndex + 1) % Len(LOADING_MESSAGES)
         /\ loadingMessage' = LOADING_MESSAGES[messageIndex' + 1]]_vars

\* Ticks interleaved with polls: the timer has fired between two status
\* requests of a call that is still polling.
C6_Witness ==
    /\ pollState = "running" /\ pollCount = 1 /\ pc = "pollSleep"
    /\ messageIndex = 3

\* ------------------------------------------------- the orchestrator's claims
\* handleSubmit has just finished / is under way or has just finished.
Finished == pc = "done"
Requested == pc # "idle" /\ outcome \in {"running", "success", "failed"}
Count(seq, x) == Cardinality({i \in 1..Len(seq) : seq[i] = x})

\* C7: when a request has failed, the loading flag is false, the error text
\* is set and nothing of the request is kept: the video handle and the
\* audio handle are null.
C7_NoPartialResultOnFailure ==
    (Finished /\ outcome = "failed") =>
      /\ ~isLoading
      /\ error # Null
      /\ videoUrl = Null
      /\ audioData = Null
      /\ audioBuffer = Null

\* A failure is credential-related when the key is missing or the service
\* rejected the key ("Requested entity was not found").
CredentialRelated(m) == m = MsgApiKeyNotSet \/ Includes(m, NotFoundNeedle)

\* C8: when a request has failed on a credential-related error, at any
\* step, hasApiKey is false.
C8_CredentialFailureRevokesKey ==
    (Finished /\ outcome = "failed" /\ cause # Null /\ CredentialRelated(cause[1]))
      => ~hasApiKey

\* C9: in a request whose script is empty or blank, no speech request and no
\* music fetch is issued and no audio context is created; when it succeeds,
\* the video handle is set and the audio handle is null.
C9_NoScriptNoAudio ==
    (Requested /\ Trim(script) = <<>>) =>
      /\ Count(issued, "generateContent") = 0
      /\ Count(issued, "fetchMusic") = 0
      /\ voicePromise = NoPromise /\ musicPromise = NoPromise
      /\ audioContext = NoContext
      /\ pc \notin {"awaitAudio", "awaitAll", "awaitDecode", "awaitRender",
                    "awaitClose"}
      /\ audioData = Null /\ audioBuffer = Null
      /\ (Finished /\ outcome = "success") => videoUrl # Null

\* A request with a blank (not empty) script has succeeded.
C9_Witness ==
    /\ Finished /\ outcome = "success" /\ script = <<" ", "\n">>
    /\ videoUrl # Null /\ Count(issued, "generateVideos") = 1

\* C10: in a request of part_001 with a script and music 'none', no music
\* fetch is issued and nothing is decoded or mixed; when it succeeds, the
\* audio handle is the decoded voice buffer itself (the samples of the
\* payload, each divided by 32768, in order) and the video handle is set.
C10_VoiceOnlyAudio ==
    (Requested /\ build = "part_001" /\ Trim(script) # <<>>
       /\ backgroundMusic = "none") =>
      /\ Count(issued, "fetchMusic") = 0
      /\ musicPromise.state # "pending" /\ musicPromise.value = Null
      /\ musicBuffer = Null
      /\ pc \notin {"awaitDecode", "awaitRender"}
      /\ (Finished /\ outcome = "success") =>
           /\ videoUrl # Null
           /\ voicePromise.state = "fulfilled"
           /\ audioBuffer = voiceBuffer
           /\ audioBuffer = pcmToAudioBuffer(voicePromise.value[1]).buffer
           /\ audioBuffer[1].length = Len(decode(voicePromise.value[1])) \div 2
           /\ \A i \in 1..audioBuffer[1].length :
                audioBuffer[1].data[i] =
                  Amp(Int16At(decode(voicePromise.value[1]), i), Int16Scale)

\* A voice-only request has succeeded with the payload (1, 32767).
C10_Witness ==
    /\ Finished /\ outcome = "success" /\ build = "part_001"
    /\ backgroundMusic = "none" /\ audioBuffer # Null
    /\ audioBuffer[1].data = << Amp(1, Int16Scale), Amp(32767, Int16Scale) >>

\* What the user sees.
UiState ==
    << isLoading, loadingMessage, error, hasApiKey, videoUrl, audioData,
       audioBuffer >>

\* Step 1 of part_001 with a script: the music fetch is issued in the step
\* that issues the speech request; decoding and mixing have begun only with
\* both fulfilled; a rejection of either means the request has failed.
StepOneJoined ==
    (Requested /\ build = "part_001" /\ Trim(script) # <<>>) =>
      /\ backgroundMusic # "none" =>
           /\ Count(issued, "generateContent") = 1 => Count(issued, "fetchMusic") = 1
           /\ voicePromise.state = "pending" => musicPromise.state # "none"
      /\ (voiceBuffer # Null \/ pc \in {"awaitDecode", "awaitRender", "awaitClose"})
           => /\ voicePromise.state = "fulfilled"
              /\ musicPromise.state = "fulfilled"
      /\ (voicePromise.state = "rejected" \/ musicPromise.state = "rejected")
           => /\ Finished /\ outcome = "failed" /\ ~isLoading
              /\ error # Null /\ videoUrl = Null /\ audioBuffer = Null
              /\ Count(issued, "generateVideos") = 0

\* C11: with a script and a music track, the speech request and the music
\* fetch are outstanding together; decoding and mixing start only when both
\* have been fulfilled; if either is rejected, in either order, the request
\* has failed with an error; and when the other one settles after the
\* request has ended, nothing the user sees changes.
C11_ConcurrentJoin ==
    [][/\ StepOneJoined'
       /\ (pc = "done" /\ (VoiceSettles \/ MusicSettles))
            => UNCHANGED << UiState, pc, outcome >>]_vars

\* Both requests were outstanding together, the speech request was rejected
\* first, and the music fetch was rejected after the request had failed.
C11_Witness ==
    /\ Finished /\ outcome = "failed" /\ build = "part_001"
    /\ Count(issued, "generateContent") = 1 /\ Count(issued, "fetchMusic") = 1
    /\ voicePromise.state = "rejected" /\ musicPromise.state = "rejected"
    /\ error = Some(MsgNetwork) /\ musicPromise.reason = MsgFetchMusic

\* C12: when a request has finished, on any path, the audio context that
\* its step 1 acquired is no longer open.
C12_ContextClosedAtFinish ==
    Finished => audioContext.state # "running"

\* C13: the video URL is set only when the operation the poller returned
\* carries a URI and the fetch of it answered with success; when the URI is
\* absent, or the answer is not a success, the request has failed with an
\* error, the video URL is null, and without a URI nothing was fetched.
C13_VideoUrlNeedsUriAndSuccess ==
    Requested =>
      /\ videoUrl # Null =>
           /\ pollResult.returned # Null
           /\ pollResult.returned[1].uri # Null
           /\ videoResponse = Some(TRUE)
           /\ Finished /\ outcome = "success" /\ error = Null
      /\ (pollResult.returned # Null /\ pollResult.returned[1].uri = Null) =>
           /\ Finished /\ outcome = "failed" /\ videoUrl = Null
           /\ error = Some(MsgNoDownloadLink)
           /\ Count(issued, "fetchVideo") = 0
      /\ videoResponse = Some(FALSE) =>
           /\ Finished /\ outcome = "failed" /\ videoUrl = Null
           /\ error = Some(MsgDownloadFailed)

\* The job finished with a URI, and the fetch of it was answered with a
\* status that is not a success.
C13_Witness ==
    /\ Finished /\ outcome = "failed" /\ videoUrl = Null
    /\ pollResult.returned # Null /\ pollResult.returned[1].uri # Null
    /\ videoResponse = Some(FALSE) /\ error = Some(MsgDownloadFailed)

\* C14: the buffer rendered from a voice of L1 frames and a music track of
\* L2 frames has as many frames as the longer of the two: at least L1, at
\* least L2, and one of them.
C14_MixLengthIsMax ==
    (Requested /\ audioBuffer # Null /\ musicBuffer # Null) =>
      LET L1 == voiceBuffer[1].length
          L2 == musicBuffer[1].length
          mixed == audioBuffer[1]
      IN  /\ mixed.length >= L1 /\ mixed.length >= L2
          /\ mixed.length \in {L1, L2}
          /\ Len(mixed.data) = mixed.length

\* A voice of two frames mixed with a music track of three.
C14_Witness ==
    /\ Requested /\ audioBuffer # Null /\ musicBuffer # Null
    /\ voiceBuffer[1].length = 2 /\ musicBuffer[1].length = 3
    /\ audioBuffer[1].length = 3

\* The data section of a WAV file: what follows the 44 bytes of the header.
DataSection(file) == SubSeq(file, 45, Len(file))

\* A 16-bit little-endian signed integer read from two bytes.
SignedLE(lo, hi) == IF hi >= 128 THEN lo + 256 * hi - 65536 ELSE lo + 256 * hi

\* C15: for PCM bytes of even length, decoding their base64 text to 16-bit
\* samples and writing these through the WAV encoder gives a file whose data
\* section holds the same number of samples, each equal to the original
\* 16-bit little-endian integer, in the same order, and whose header states
\* that size.
C15_WavRoundTrip ==
    (codec.saved /\ Len(codec.pcm) % 2 = 0) =>
      /\ codec.download.thrown = Null
      /\ codec.download.file # Null
      /\ LET file == codec.download.file[1]
             data == DataSection(file)
             n == Len(codec.pcm) \div 2
         IN  /\ Len(file) = 44 + 2 * n
             /\ Len(data) = 2 * n
             /\ SubSeq(file, 41, 44) = << 2 * n, 0, 0, 0 >>
             /\ \A i \in 1..n :
                  SignedLE(data[2 * i - 1], data[2 * i])
                    = SignedLE(codec.pcm[2 * i - 1], codec.pcm[2 * i])

\* The samples -32768 and 32767 have been saved.
C15_Witness ==
    /\ codec.saved /\ codec.pcm = << 0, 128, 255, 127 >>
    /\ codec.download.file # Null
    /\ DataSection(codec.download.file[1]) = << 0, 128, 255, 127 >>

\* C16: a payload whose decoded length in bytes is odd makes the decoder
\* throw, for playback and for saving alike; no samples come out of it.
C16_OddLengthThrows ==
    (codec.stage = "payload" /\ Len(decode(codec.base64)) % 2 = 1) =>
      /\ codec.played =>
           /\ codec.playback.thrown = Some(MsgInt16Range)
           /\ codec.playback.buffer = Null
      /\ codec.saved =>
           /\ codec.download.thrown = Some(MsgInt16Range)
           /\ codec.download.file = Null

\* Three bytes, one sample and a half, have been refused for playback.
C16_Witness ==
    /\ codec.played /\ codec.pcm = << 1, 0, 255 >>
    /\ Len(decode(codec.base64)) = 3
    /\ codec.playback.thrown = Some(MsgInt16Range)

\* The place of a remote request in the order of the steps.
StepOf(request) ==
    CASE request \in {"generateContent", "fetchMusic"} -> 1
      [] request = "generateVideos" -> 2
      [] request = "getVideosOperation" -> 3
      [] request = "fetchVideo" -> 4

\* Step 1 has ended well: the voice (and, in part_001, the music, the mix
\* and the closing of the context) are there.
AudioStepDone ==
    Trim(script) # <<>> =>
      /\ voicePromise.state = "fulfilled"
      /\ build = "App.tsx" => audioData # Null
      /\ build = "part_001" =>
           /\ musicPromise.state = "fulfilled"
           /\ audioBuffer # Null /\ audioContext.state = "closed"

\* C17: within one request the remote steps go in the order audio step,
\* video request, status polling, final fetch, each begun only when the one
\* before it has settled with success: no video request while the audio step
\* is pending or after it failed, no status request before the video request
\* was answered, no final fetch unless polling returned a done operation.
C17_StepsInOrder ==
    Requested =>
      /\ \A i, j \in 1..Len(issued) : i < j => StepOf(issued[i]) <= StepOf(issued[j])
      /\ Count(issued, "generateVideos") <= 1 /\ Count(issued, "fetchVideo") <= 1
      /\ Count(issued, "generateVideos") = 1 => AudioStepDone
      /\ pc \in {"awaitAudio", "awaitAll", "awaitDecode", "awaitRender", "awaitClose"}
           => Count(issued, "generateVideos") = 0
      /\ Count(issued, "getVideosOperation") > 0 =>
           /\ Count(issued, "generateVideos") = 1
           /\ pollState # "none" /\ currentOperation # Null
      /\ Count(issued, "fetchVideo") = 1 =>
           /\ pollState = "returned"
           /\ pollResult.returned # Null
           /\ pollResult.returned[1].done
           /\ pollResult.returned[1].error = Null

\* A request with script and music that went through all four steps.
C17_Witness ==
    /\ Finished /\ outcome = "success" /\ build = "part_001"
    /\ Len(issued) = 5
    /\ issued[1] = "generateContent" /\ issued[2] = "fetchMusic"
    /\ issued[3] = "generateVideos" /\ issued[4] = "getVideosOperation"
    /\ issued[5] = "fetchVideo"

\* C18: once the player's effect has run and been torn down (the player has
\* left the tree), every audio context the effect created is closed.
C18_PlayerContextClosed ==
    (~player.mounted /\ player.thrown = Null) =>
      \A i \in 1..Len(player.contexts) : player.contexts[i] = "closed"

\* C19: when a request with a prompt has finished, loading is off and either
\* the video URL is set and the error is null, or the error is set and the
\* video URL is null; and from the start of the request, before any remote
\* call, the error and the video URL are null, and the audio handle is null
\* until the audio step delivers it.
C19_ExactlyOneOutcome ==
    /\ (Finished /\ outcome \in {"success", "failed"}) =>
         /\ ~isLoading
         /\ \/ videoUrl # Null /\ error = Null
            \/ error # Null /\ videoUrl = Null
    /\ isLoading =>
         /\ Requested /\ outcome = "running"
         /\ error = Null /\ videoUrl = Null
         /\ pc \in {"awaitAudio", "awaitAll", "awaitDecode", "awaitRender"}
              => audioData = Null /\ audioBuffer = Null

\* The request failed at its very last step, reading the fetched video.
C19_Witness ==
    /\ Finished /\ outcome = "failed" /\ ~isLoading
    /\ error = Some(MsgNetwork) /\ videoUrl = Null
    /\ videoResponse = Some(TRUE) /\ Count(issued, "fetchVideo") = 1

\* C20: a request that has set loading clears it in the end, given that
\* every remote call settles and that the job is in the end reported done or
\* a status request fails.  And the poller has no other way out: while it
\* polls, loading is set, and it stops polling only on an answer that says
\* done or on a status request that failed.
C20_LoadingEventuallyCleared ==
    /\ isLoading ~> ~isLoading
    /\ [](pollState = "running" => isLoading /\ pc \in {"pollSleep", "pollRequest"})
    /\ [][(pollState = "running" /\ pollState' # "running")
            => \/ /\ Len(responses') = Len(responses) + 1
                  /\ responses'[Len(responses')].done
               \/ failedAttempt' = pollCount /\ failedAttempt' > 0]_vars

\* As many "not done" answers as the bound lets through, then a done one,
\* and the request has ended with loading cleared.
C20_Witness ==
    /\ Finished /\ ~isLoading /\ outcome = "success"
    /\ pollState = "returned" /\ pollCount = MaxPolls + 1
    /\ \A i \in 1..MaxPolls : ~responses[i].done
====
